---- MODULE Spec2Model ----
(***************************************************************************)
(* The C preprocessor processing                                           *)
(*   port/platform/nordic/nrf53/cfg/u_cfg_app_platform_specific.h          *)
(* inside a translation unit.  The header is an include guard around one   *)
(* #include "u_runner.h".  The model is a small preprocessor: an include   *)
(* stack, the set of defined macros, the emitted tokens, and the list of   *)
(* files opened by #include.  The header's directives are taken line by    *)
(* line from the source; the translation unit and u_runner.h are the       *)
(* environment and are drawn from bounded sets.                            *)
(***************************************************************************)
EXTENDS Naturals, Sequences, FiniteSets

\* Longest translation unit (number of directives in the including file).
MaxTU == 3
\* The preprocessor's limit on nested #include (200 in GCC), kept small.
MaxDepth == 6

\* ------------------------------------------------------------------ names

GUARD == "_U_CFG_APP_PLATFORM_SPECIFIC_H_"
RUNNER_GUARD == "_U_RUNNER_H_"
APP_MACRO == "U_CFG_APP_MACRO"

CFG_H == "u_cfg_app_platform_specific.h"
RUNNER_H == "u_runner.h"
MAIN_C == "main.c"

Syms == {GUARD, RUNNER_GUARD, APP_MACRO}

D(op, arg, line) == [op |-> op, arg |-> arg, line |-> line]

\* ----------------------------------------------------------- the header

\* A guard whose #define spells another symbol than its #ifndef.
HeaderMisspelledDefine ==
    << D("ifndef", GUARD, 17),
       D("define", "_U_CFG_APP_PLATFORM_SPECIFIC_H", 18),
       D("include", RUNNER_H, 21),
       D("endif", "", 31) >>

\* The #define placed after the #include instead of before it.
HeaderDefineAfterInclude ==
    << D("ifndef", GUARD, 17),
       D("include", RUNNER_H, 21),
       D("define", GUARD, 18),
       D("endif", "", 31) >>

\* The #include left out of the header.
HeaderNoInclude ==
    << D("ifndef", GUARD, 17),
       D("define", GUARD, 18),
       D("endif", "", 31) >>

\* The header also defining a configuration macro of its own.
HeaderDefinesOther ==
    << D("ifndef", GUARD, 17),
       D("define", GUARD, 18),
       D("include", RUNNER_H, 21),
       D("define", APP_MACRO, 29),
       D("endif", "", 31) >>

\* The guard released again at the end of the guarded region.
HeaderUndefAtEnd ==
    << D("ifndef", GUARD, 17),
       D("define", GUARD, 18),
       D("include", RUNNER_H, 21),
       D("undef", GUARD, 29),
       D("endif", "", 31) >>

\* The directives of u_cfg_app_platform_specific.h, lines 17, 18, 21, 31.
Header ==
    << D("ifndef", GUARD, 17),
       D("define", GUARD, 18),
       D("include", RUNNER_H, 21),
       D("endif", "", 31) >>

\* ------------------------------------------------------ the environment

\* u_runner.h as the include path offers it: absent, or present with or
\* without a guard of its own, and with or without an #include of the
\* configuration header back.
RunnerKinds ==
    { [present |-> FALSE, guarded |-> FALSE, cyclic |-> FALSE] } \cup
    { [present |-> TRUE, guarded |-> g, cyclic |-> c] : g, c \in BOOLEAN }

RunnerText(r) ==
    (IF r.guarded
        THEN << D("ifndef", RUNNER_GUARD, 0), D("define", RUNNER_GUARD, 0) >>
        ELSE << >>)
    \o (IF r.cyclic THEN << D("include", CFG_H, 0) >> ELSE << >>)
    \o << D("text", "runner declarations", 0) >>
    \o (IF r.guarded THEN << D("endif", "", 0) >> ELSE << >>)

\* What a translation unit may hold: inclusions of the header, and
\* definitions and undefinitions of macros.
TUDirectives ==
    { D("include", CFG_H, 0) }
    \cup { D("define", s, 0) : s \in Syms }
    \cup { D("undef", s, 0) : s \in Syms }

SeqsUpTo(S, n) == UNION { [1..k -> S] : k \in 0..n }

TranslationUnits == SeqsUpTo(TUDirectives, MaxTU)

\* ---------------------------------------------------------------- state

VARIABLES
    tu,        \* the directives of the translation unit
    runner,    \* u_runner.h on the include path
    macros,    \* the macros defined so far
    stack,     \* include stack, innermost file last: [file, pc, skip]
    output,    \* tokens emitted so far
    opened,    \* files entered by a processed #include, in order
    status,    \* "running", "ok" or "error"
    err        \* "" or the compile-time error

vars == << tu, runner, macros, stack, output, opened, status, err >>

FileText(f) ==
    IF f = MAIN_C THEN tu
    ELSE IF f = CFG_H THEN Header
    ELSE RunnerText(runner)

Resolvable(f) == f = CFG_H \/ (f = RUNNER_H /\ runner.present)

Top == stack[Len(stack)]
TopText == FileText(Top.file)
AtDirective == status = "running" /\ Top.pc <= Len(TopText)
Cur == TopText[Top.pc]
Active == Top.skip = 0

Advance(skip) ==
    [stack EXCEPT ![Len(stack)] = [@ EXCEPT !.pc = @ + 1, !.skip = skip]]

Frame(f) == [file |-> f, pc |-> 1, skip |-> 0]

Init ==
    /\ tu \in TranslationUnits
    /\ runner \in RunnerKinds
    /\ macros = {}
    /\ stack = << Frame(MAIN_C) >>
    /\ output = << >>
    /\ opened = << >>
    /\ status = "running"
    /\ err = ""

\* #ifndef SYM: in a skipped region it only nests; otherwise the region
\* that follows is skipped when SYM is defined.
Ifndef ==
    /\ AtDirective /\ Cur.op = "ifndef"
    /\ stack' = Advance(IF ~Active THEN Top.skip + 1
                        ELSE IF Cur.arg \in macros THEN 1 ELSE 0)
    /\ UNCHANGED << tu, runner, macros, output, opened, status, err >>

\* #endif closes the innermost conditional.
Endif ==
    /\ AtDirective /\ Cur.op = "endif"
    /\ stack' = Advance(IF Top.skip > 0 THEN Top.skip - 1 ELSE 0)
    /\ UNCHANGED << tu, runner, macros, output, opened, status, err >>

\* #define SYM
Define ==
    /\ AtDirective /\ Cur.op = "define"
    /\ macros' = IF Active THEN macros \cup {Cur.arg} ELSE macros
    /\ stack' = Advance(Top.skip)
    /\ UNCHANGED << tu, runner, output, opened, status, err >>

\* #undef SYM
Undef ==
    /\ AtDirective /\ Cur.op = "undef"
    /\ macros' = IF Active THEN macros \ {Cur.arg} ELSE macros
    /\ stack' = Advance(Top.skip)
    /\ UNCHANGED << tu, runner, output, opened, status, err >>

\* #include "file": a file that cannot be found, or nesting beyond the
\* limit, is a fatal error; otherwise the file is entered.
Include ==
    /\ AtDirective /\ Cur.op = "include"
    /\ IF ~Active
          THEN /\ stack' = Advance(Top.skip)
               /\ UNCHANGED << opened, status, err >>
       ELSE IF ~Resolvable(Cur.arg)
          THEN /\ status' = "error"
               /\ err' = "no such file"
               /\ UNCHANGED << stack, opened >>
       ELSE IF Len(stack) >= MaxDepth
          THEN /\ status' = "error"
               /\ err' = "include nested too deeply"
               /\ UNCHANGED << stack, opened >>
       ELSE /\ stack' = Append(Advance(Top.skip), Frame(Cur.arg))
            /\ opened' = Append(opened, Cur.arg)
            /\ UNCHANGED << status, err >>
    /\ UNCHANGED << tu, runner, macros, output >>

\* Ordinary text: declarations, emitted unless skipped.
Text ==
    /\ AtDirective /\ Cur.op = "text"
    /\ output' = IF Active THEN Append(output, Cur.arg) ELSE output
    /\ stack' = Advance(Top.skip)
    /\ UNCHANGED << tu, runner, macros, opened, status, err >>

\* End of an included file: back to the file that included it.
EndOfFile ==
    /\ status = "running"
    /\ Len(stack) > 1
    /\ Top.pc > Len(TopText)
    /\ stack' = SubSeq(stack, 1, Len(stack) - 1)
    /\ UNCHANGED << tu, runner, macros, output, opened, status, err >>

\* End of the translation unit.
Finish ==
    /\ status = "running"
    /\ Len(stack) = 1
    /\ Top.pc > Len(TopText)
    /\ status' = "ok"
    /\ UNCHANGED << tu, runner, macros, stack, output, opened, err >>

Next ==
    \/ Ifndef
    \/ Endif
    \/ Define
    \/ Undef
    \/ Include
    \/ Text
    \/ EndOfFile
    \/ Finish

Spec == Init /\ [][Next]_vars

\* ------------------------------------------------- reading the input

IsIncl(d) == d = D("include", CFG_H, 0)
Count(seq, x) == Cardinality({ i \in DOMAIN seq : seq[i] = x })
Range(seq) == { seq[i] : i \in DOMAIN seq }

\* The translation unit's own position, and whether it is between two of
\* its directives (every file it included has been left again).
MainPc == stack[1].pc
AtTopLevel == Len(stack) = 1 /\ status # "error"

HasIncl == \E i \in DOMAIN tu : IsIncl(tu[i])
OnlyInclusions == Len(tu) >= 1 /\ \A i \in DOMAIN tu : IsIncl(tu[i])
FirstIncl == CHOOSE i \in DOMAIN tu :
                 IsIncl(tu[i]) /\ \A j \in 1..(i - 1) : ~IsIncl(tu[j])

\* The translation unit itself has the guard symbol defined at the point
\* where it first includes the header.
GuardPredefined ==
    /\ HasIncl
    /\ \E j \in 1..(FirstIncl - 1) :
          /\ tu[j] = D("define", GUARD, 0)
          /\ \A k \in (j + 1)..(FirstIncl - 1) : tu[k] # D("undef", GUARD, 0)

\* --------------------------------------------------------------- claims

\* C1: in a translation unit made of n >= 1 inclusions of the header, with
\* the guard undefined at the start, after every completed inclusion the
\* header's guarded #include has been processed exactly once, and the
\* macros and the emitted tokens are those one inclusion leaves: the guard
\* (with what u_runner.h defines) and u_runner.h's declarations, once.
C1_GuardIdempotent ==
    (OnlyInclusions /\ AtTopLevel /\ MainPc >= 2) =>
        /\ Count(opened, RUNNER_H) = 1
        /\ output = << "runner declarations" >>
        /\ macros = {GUARD} \cup (IF runner.guarded THEN {RUNNER_GUARD} ELSE {})

C1_Witness ==
    /\ OnlyInclusions /\ Len(tu) = MaxTU
    /\ status = "ok"
    /\ Count(opened, RUNNER_H) = 1

\* C2 as stated: once a translation unit has processed an #include of the
\* header, u_runner.h has been included, whatever the macros were before.
C2_RunnerAlwaysIncluded ==
    \A i \in DOMAIN tu :
        (IsIncl(tu[i]) /\ AtTopLevel /\ MainPc > i) => RUNNER_H \in Range(opened)

\* C2 amended: if the guard symbol is not already defined when the
\* translation unit first includes the header, then once that inclusion
\* has been processed, u_runner.h has been included.
C2_RunnerIncludedWhenGuardFree ==
    (HasIncl /\ ~GuardPredefined /\ AtTopLevel /\ MainPc > FirstIncl) =>
        RUNNER_H \in Range(opened)

C2_Witness ==
    /\ HasIncl /\ FirstIncl = 2 /\ tu[1] = D("undef", GUARD, 0)
    /\ AtTopLevel /\ MainPc = 3
    /\ RUNNER_H \in Range(opened)

\* C3 as stated: a translation unit that includes the header ends in
\* success exactly when u_runner.h is on the include path, and in a
\* compile-time error exactly when it is not.
C3_OutcomeByRunnerAlone ==
    /\ status \in {"running", "ok", "error"}
    /\ (HasIncl /\ status = "ok") => runner.present
    /\ status = "error" => (~runner.present /\ err = "no such file")

\* C3 amended: processing never fails while u_runner.h is on the include
\* path; when it is absent, a translation unit that first includes the
\* header with the guard symbol undefined ends in the compile-time error
\* "no such file" and never in success; there is no other outcome, and
\* processing never stops short of one.
C3_OutcomeWhenGuardFree ==
    /\ status \in {"running", "ok", "error"}
    /\ (HasIncl /\ ~GuardPredefined /\ status = "ok") => runner.present
    /\ status = "error" => (~runner.present /\ err = "no such file")
    /\ status = "running" => ENABLED Next

C3_Witness ==
    /\ status = "error" /\ err = "no such file"
    /\ ~runner.present
    /\ Top.file = CFG_H /\ Cur.line = 21

\* C4: a step taken by the header's own text leaves the emitted tokens
\* alone, defines at most the guard symbol and undefines nothing, and
\* enters at most u_runner.h.
C4_HeaderFrame ==
    [][ (status = "running" /\ Top.file = CFG_H) =>
            /\ macros' \in {macros, macros \cup {GUARD}}
            /\ output' = output
            /\ opened' \in {opened, Append(opened, RUNNER_H)}
            /\ tu' = tu /\ runner' = runner ]_vars

C4_Witness ==
    /\ status = "running" /\ Top.file = CFG_H /\ Top.pc = 3 /\ Active
    /\ macros = {GUARD, APP_MACRO}

\* C5: the guard is defined whenever u_runner.h is being read on behalf
\* of the header, so an inclusion of the header from inside u_runner.h
\* skips the guarded region: the nesting never goes deeper than
\* translation unit, header, u_runner.h, header, and the nesting limit is
\* never hit.
C5_NestedInclusionSkipped ==
    /\ err # "include nested too deeply"
    /\ Len(stack) <= 4
    /\ \A i \in 1..(Len(stack) - 1) :
          (stack[i].file = CFG_H /\ stack[i + 1].file = RUNNER_H) =>
              GUARD \in macros
    /\ \A i, j \in 1..Len(stack) :
          (i < j /\ stack[i].file = CFG_H /\ stack[j].file = CFG_H
                 /\ stack[j].pc \in 2..Len(Header)) => stack[j].skip > 0

C5_Witness ==
    /\ runner.cyclic /\ ~runner.guarded
    /\ Len(stack) = 4
    /\ Top.file = CFG_H /\ Top.skip > 0

\* C6: after an inclusion of the header, and after any further inclusions
\* of it that follow, the guard symbol is defined.
C6_GuardStaysDefined ==
    \A i \in DOMAIN tu :
        (/\ IsIncl(tu[i])
         /\ AtTopLevel /\ MainPc > i
         /\ \A k \in (i + 1)..(MainPc - 1) : IsIncl(tu[k]))
        => GUARD \in macros

C6_Witness ==
    /\ Len(tu) = MaxTU /\ tu[1] = D("define", APP_MACRO, 0)
    /\ \A k \in 2..Len(tu) : IsIncl(tu[k])
    /\ AtTopLevel /\ MainPc = Len(tu) + 1
    /\ GUARD \in macros

====
